---------------------------- MODULE Spec2Model ----------------------------
(***************************************************************************)
(* Room allocation system: the project-room allocator (allocate_rooms) and *)
(* the Oasis allocator (allocate_oasis) of src/logic/allocation.py.        *)
(*                                                                         *)
(* Each allocator is a specification of its own (SpecRooms, SpecOasis):    *)
(* Init draws the preference list from a bounded family, and every action  *)
(* is one iteration of one of the allocator's loops, so that every         *)
(* intermediate placement is a state.                                      *)
(*                                                                         *)
(* random.shuffle is a nondeterministic choice.  "Sort, shuffle the ties,  *)
(* then walk the list" is modelled as "the next element walked is any      *)
(* unvisited element the sort allows next", which produces exactly the     *)
(* orders a sort followed by a shuffle of the ties can produce.            *)
(***************************************************************************)
EXTENDS Integers, Sequences, FiniteSets, Bags, TLC

VARIABLES
    (* ---- allocate_rooms ---- *)
    preferences,        \* the submitted team preferences; a team's name is its index
    rpc,                \* position in allocate_rooms
    visited_teams,      \* names of the teams the main pass has walked so far
    room_usage,         \* room_usage of the running _allocate_teams_for_days call
    allocations,        \* the allocation records produced so far
    mon_wed_unplaced,   \* teams the Monday/Wednesday pass could not place
    tue_thu_unplaced,   \* teams the Tuesday/Thursday pass could not place
    all_unplaced,       \* the list the overflow loop walks
    overflow_idx,       \* position of the overflow loop in all_unplaced
    unplaced_teams,     \* the names returned as unplaced
    (* ---- allocate_oasis ---- *)
    parsed_preferences, \* each person's preferred_days; a person's name is its index
    opc,                \* position in allocate_oasis
    daily_allocations,  \* per weekday, the bag of the names allocated to it
    person_allocations, \* per person, the list of the days allocated
    unvisited,          \* the people the running shuffled sweep has yet to walk
    unallocated_people, \* the people walked and still without a day, in order
    retry_todo,         \* what the running retry pass has yet to walk
    pass_num,           \* pass_num of the running loop
    made_allocation,    \* made_allocation of the running bonus pass
    sweeps,             \* the sweeps over the people started so far
    retry_placed,       \* the people the retry pass under way, or the last one, has placed
    (* ---- add_adhoc_allocation and the form that calls it ---- *)
    existing_allocations, \* the stored Oasis allocation records
    apc,                \* position in the ad-hoc form's handler
    adhoc_request,      \* the person and day of the running call
    new_allocation,     \* what the call returned
    adhoc_calls,        \* the calls made so far
    (* ---- validate_allocation_results ---- *)
    weekly_allocations, \* the room allocation records handed to the validator
    oasis_allocations,  \* the Oasis allocation records handed to the validator
    vpc,                \* "ready" while the validator can be called
    validation_results, \* the report of the last call
    first_results,      \* the report of the first call
    validation_calls,   \* the calls made so far
    validation_raised,  \* the exception the last call raised, "none" if it returned
    (* ---- DataStorage and the threads that call it ---- *)
    store_lock,         \* the thread that holds self.lock, 0 when it is free
    stored_preferences, \* per collection, the names of the stored preference records
    archived_preferences,\* per collection, the names of the archived records
    last_reset,         \* whether archive_and_reset has set last_reset
    thread_pc,          \* per thread, its position in the storage call it runs
    thread_call,        \* per thread, the collection and name of its running add call
    thread_read,        \* per thread, the list its running call has read
    thread_result,      \* per thread, what its last add call returned
    thread_calls,       \* the storage calls made so far
    (* ---- SecurityManager: the admin login of one browser session ---- *)
    session_state,      \* st.session_state: admin_login_attempts and admin_lockout_until, when set
    clock,              \* time.time(), in seconds
    login_password,     \* the password of the last verify_admin_password call
    login_result,       \* what that call returned
    login_calls,        \* the calls made so far
    failed_calls,       \* the calls that returned False since the last one that returned True
    fifth_failure_at,   \* the time of the fifth of them, when there are five
    failed_guesses,     \* those of them that had a password to check
    fifth_guess_at,     \* the time of the fifth of them, when there are five
    (* ---- render_oasis_editor run by the admin sessions on the shared store ---- *)
    stored_oasis,       \* the file oasis_allocations.json
    session_pc,         \* where each session's run of the page is
    session_allocations,\* each session's oasis_allocations, as read by its run
    added_records,      \* the (person, day) the form has reported as added
    session_cycles      \* the runs of the page started so far

room_vars == <<preferences, rpc, visited_teams, room_usage, allocations,
               mon_wed_unplaced, tue_thu_unplaced, all_unplaced, overflow_idx,
               unplaced_teams>>

oasis_vars == <<parsed_preferences, opc, daily_allocations, person_allocations,
                unvisited, unallocated_people, retry_todo, pass_num,
                made_allocation, sweeps, retry_placed>>

adhoc_vars == <<existing_allocations, apc, adhoc_request, new_allocation,
                adhoc_calls>>

validator_vars == <<weekly_allocations, oasis_allocations, vpc,
                    validation_results, first_results, validation_calls,
                    validation_raised>>

storage_vars == <<store_lock, stored_preferences, archived_preferences,
                  last_reset, thread_pc, thread_call, thread_read,
                  thread_result, thread_calls>>

security_vars == <<session_state, clock, login_password, login_result, login_calls, failed_calls, fifth_failure_at, failed_guesses, fifth_guess_at>>

editor_vars == <<stored_oasis, session_pc, session_allocations, added_records, session_cycles>>

vars == <<room_vars, oasis_vars, adhoc_vars, validator_vars, storage_vars, security_vars, editor_vars>>

\* what each part of the program leaves alone
outside_rooms == <<oasis_vars, adhoc_vars, validator_vars, storage_vars, security_vars, editor_vars>>
outside_oasis == <<room_vars, adhoc_vars, validator_vars, storage_vars, security_vars, editor_vars>>
outside_adhoc == <<room_vars, oasis_vars, validator_vars, storage_vars, security_vars, editor_vars>>
outside_validator == <<room_vars, oasis_vars, adhoc_vars, storage_vars, security_vars, editor_vars>>
outside_storage == <<room_vars, oasis_vars, adhoc_vars, validator_vars, security_vars, editor_vars>>
outside_security == <<room_vars, oasis_vars, adhoc_vars, validator_vars, storage_vars, editor_vars>>
outside_editor == <<room_vars, oasis_vars, adhoc_vars, validator_vars, storage_vars, security_vars>>

(***************************************************************************)
(* Bounds of the model.                                                    *)
(***************************************************************************)
MaxTeams == 5
MaxPeople == 12
MaxFlexible == 2
MaxMixedTeams == 2
MaxAdhoc == 2
MaxWeekly == 3
MaxExtra == 2
MaxValidations == 2
MaxCalls == 3

MaxLogins == 7

MaxTicks == 4

TickSeconds == 300

MaxCycles == 3

(***************************************************************************)
(* Helpers on sequences.                                                   *)
(***************************************************************************)
Range(s) == {s[i] : i \in DOMAIN s}

RECURSIVE SumOver(_, _)
SumOver(S, f) ==
    IF S = {} THEN 0
    ELSE LET x == CHOOSE y \in S : TRUE
         IN  f[x] + SumOver(S \ {x}, f)

(***************************************************************************)
(* Static configuration.                                                   *)
(***************************************************************************)
rooms == <<"Room A", "Room B", "Room C", "Room D", "Room E",
           "Room F", "Room G", "Room H", "Room I">>

room_capacities ==
    [r \in Range(rooms) |->
        IF r \in {"Room A", "Room B"} THEN 6 ELSE 4]

MonWed == "Monday & Wednesday"
TueThu == "Tuesday & Thursday"

MonWedDays == <<"Monday", "Wednesday">>
TueThuDays == <<"Tuesday", "Thursday">>

MinTeamSize == 3
MaxTeamSize == 6

\* submission_time: NoTime is a missing or unparsable value (time_score = 0),
\* any other value is the timestamp in seconds.
NoTime == 0

(***************************************************************************)
(* calculate_team_priority_score, in units of 1/3,600,000: the code's      *)
(* team_size * 10 + (-(timestamp / 3600)) * 0.001, with time_score = 0     *)
(* when the submission time does not parse.                                *)
(***************************************************************************)
calculate_team_priority_score(team_size, submission_time) ==
    LET size_score == team_size * 10 * 3600000
        time_score == IF submission_time = NoTime THEN 0 ELSE -submission_time
    IN  size_score + time_score

Score(t) ==
    calculate_team_priority_score(preferences[t].team_size,
                                  preferences[t].submission_time)

(***************************************************************************)
(* The preference lists Init draws from.  The allocator sorts its input    *)
(* and shuffles the ties, and teams of one size and day-pair differ in     *)
(* their names only, so one list per multiset of teams is drawn: the teams *)
(* in the order of TeamType's index.                                       *)
(***************************************************************************)
NumSizes == MaxTeamSize - MinTeamSize + 1
NumTeamTypes == NumSizes * 2

TeamType(k) ==
    [team_size       |-> MinTeamSize + (k % NumSizes),
     preferred_days  |-> IF (k \div NumSizes) % 2 = 0 THEN MonWed ELSE TueThu,
     submission_time |-> NoTime]

RECURSIVE TeamLists(_, _)
TeamLists(n, from) ==
    IF n = 0 THEN {<< >>}
    ELSE UNION {{<<TeamType(k)>> \o s : s \in TeamLists(n - 1, k)} :
                    k \in from .. (NumTeamTypes - 1)}

\* add_weekly_preference stamps every stored preference with the time of its
\* submission: the i-th team of the list was submitted i seconds after the
\* first.
Stamped(s) ==
    [i \in DOMAIN s |-> [s[i] EXCEPT !.submission_time = 1700000000 + i]]

\* Every list comes unstamped (no team carries a submission time: all teams
\* of one size tie) and stamped (no two teams tie).
PreferenceLists ==
    LET lists == UNION {TeamLists(n, 0) : n \in 0 .. MaxTeams}
    IN  lists \cup {Stamped(s) : s \in lists}

(***************************************************************************)
(* Lists beyond MaxTeams, drawn one by one.  Every team is stamped, so the *)
(* sort leaves no tie and a run of the allocator is one behaviour.         *)
(***************************************************************************)
Team(size, days) ==
    [team_size |-> size, preferred_days |-> days, submission_time |-> NoTime]

Repeat(n, team) == [i \in 1 .. n |-> team]

\* ten teams of four people, all asking for Monday & Wednesday
TenTeamsOfFour == Stamped(Repeat(10, Team(4, MonWed)))

\* Monday & Wednesday: two teams of six and seven teams of four, which fill
\* the nine rooms, and nine teams of three; Tuesday & Thursday: one team of
\* three
CrowdedWeek ==
    Stamped(Repeat(2, Team(6, MonWed)) \o Repeat(7, Team(4, MonWed))
                \o Repeat(9, Team(3, MonWed)) \o Repeat(1, Team(3, TueThu)))

ScenarioLists == {TenTeamsOfFour, CrowdedWeek}

(***************************************************************************)
(* Short lists in which a team may or may not carry a submission time:     *)
(* allocate_rooms reads it with x.get('submission_time', ''), and a value  *)
(* that does not parse counts as no time.                                  *)
(***************************************************************************)
SubmissionTimes == <<NoTime, 1700000000, 1700003600>>

TimedTeamType(k) ==
    [TeamType(k % NumTeamTypes) EXCEPT
        !.submission_time = SubmissionTimes[(k \div NumTeamTypes) + 1]]

RECURSIVE TimedTeamLists(_, _)
TimedTeamLists(n, from) ==
    IF n = 0 THEN {<< >>}
    ELSE UNION {{<<TimedTeamType(k)>> \o s : s \in TimedTeamLists(n - 1, k)} :
                    k \in from .. (NumTeamTypes * Len(SubmissionTimes) - 1)}

MixedLists == UNION {TimedTeamLists(n, 0) : n \in 0 .. MaxMixedTeams}

TeamNames == DOMAIN preferences

(***************************************************************************)
(* allocate_rooms, lines 34-44: the two groups, and the teams the sorted   *)
(* and tie-shuffled list of a group can hold next.                         *)
(***************************************************************************)
mon_wed_teams == {t \in TeamNames : preferences[t].preferred_days = MonWed}
tue_thu_teams == {t \in TeamNames : preferences[t].preferred_days = TueThu}

NextInOrder(group) ==
    LET left == group \ visited_teams
    IN  {t \in left : \A u \in left : Score(u) <= Score(t)}

(***************************************************************************)
(* _allocate_teams_for_days                                                *)
(***************************************************************************)
EmptyUsage(days) ==
    [d \in Range(days) |-> [r \in Range(rooms) |-> 0]]

\* lines 119-125: every room-day that holds an existing allocation is full
ExistingUsage(days, existing) ==
    [d \in Range(days) |->
        [r \in Range(rooms) |->
            IF \E i \in DOMAIN existing :
                   existing[i].day_of_week = d /\ existing[i].room_name = r
            THEN room_capacities[r] ELSE 0]]

\* AvailableBothDays with the team's size left out of the comparison
AvailableBothDaysNoSize(room, team_size, days, usage) ==
    \A d \in Range(days) : ~(usage[d][room] > room_capacities[room])

\* lines 137-143
AvailableBothDays(room, team_size, days, usage) ==
    \A d \in Range(days) : ~(usage[d][room] + team_size > room_capacities[room])

\* lines 132-147: the index of the first suitable room, 0 when there is none
SuitableRoom(team_size, days, usage) ==
    LET ok == {i \in DOMAIN rooms :
                  /\ room_capacities[rooms[i]] >= team_size
                  /\ AvailableBothDays(rooms[i], team_size, days, usage)}
    IN  IF ok = {} THEN 0 ELSE CHOOSE i \in ok : \A j \in ok : i <= j

\* NewAllocations with the loop over days left after its first round
NewAllocationsFirstDay(team_name, room, days) ==
    [i \in {1} |->
        [team_name |-> team_name, room_name |-> room, day_of_week |-> days[i]]]

\* lines 151-160: one record per day, in the order of days
NewAllocations(team_name, room, days) ==
    [i \in DOMAIN days |->
        [team_name |-> team_name, room_name |-> room, day_of_week |-> days[i]]]

\* line 163
UsageAfter(usage, room, team_size, days) ==
    [d \in DOMAIN usage |->
        IF d \in Range(days)
        THEN [usage[d] EXCEPT ![room] = @ + team_size]
        ELSE usage[d]]

(***************************************************************************)
(* allocate_rooms                                                          *)
(***************************************************************************)
RoomsInit ==
    /\ preferences \in PreferenceLists \cup ScenarioLists \cup MixedLists
    /\ rpc = "start"
    /\ visited_teams = {}
    /\ room_usage = EmptyUsage(MonWedDays)
    /\ allocations = << >>
    /\ mon_wed_unplaced = << >>
    /\ tue_thu_unplaced = << >>
    /\ all_unplaced = << >>
    /\ overflow_idx = 0
    /\ unplaced_teams = << >>

\* lines 31-51
Start ==
    /\ rpc = "start"
    /\ rpc' = IF preferences = << >> THEN "done" ELSE "mon_wed"
    /\ room_usage' = EmptyUsage(MonWedDays)
    /\ UNCHANGED <<preferences, visited_teams, allocations, mon_wed_unplaced,
                   tue_thu_unplaced, all_unplaced, overflow_idx, unplaced_teams>>
    /\ UNCHANGED outside_rooms

\* lines 127-165 for one team of the Monday/Wednesday group
MonWedStep ==
    /\ rpc = "mon_wed"
    /\ \E t \in NextInOrder(mon_wed_teams) :
          LET size == preferences[t].team_size
              i    == SuitableRoom(size, MonWedDays, room_usage)
          IN  /\ visited_teams' = visited_teams \cup {t}
              /\ IF i # 0
                 THEN /\ allocations' =
                            allocations \o NewAllocations(t, rooms[i], MonWedDays)
                      /\ room_usage' =
                            UsageAfter(room_usage, rooms[i], size, MonWedDays)
                      /\ UNCHANGED mon_wed_unplaced
                 ELSE /\ mon_wed_unplaced' = Append(mon_wed_unplaced, t)
                      /\ UNCHANGED <<allocations, room_usage>>
    /\ UNCHANGED <<preferences, rpc, tue_thu_unplaced, all_unplaced,
                   overflow_idx, unplaced_teams>>
    /\ UNCHANGED outside_rooms

\* lines 57-62: the Monday/Wednesday call returns, the next call starts
MonWedDone ==
    /\ rpc = "mon_wed"
    /\ mon_wed_teams \subseteq visited_teams
    /\ rpc' = "tue_thu"
    /\ room_usage' = EmptyUsage(TueThuDays)
    /\ UNCHANGED <<preferences, visited_teams, allocations, mon_wed_unplaced,
                   tue_thu_unplaced, all_unplaced, overflow_idx, unplaced_teams>>
    /\ UNCHANGED outside_rooms

\* lines 127-165 for one team of the Tuesday/Thursday group
TueThuStep ==
    /\ rpc = "tue_thu"
    /\ \E t \in NextInOrder(tue_thu_teams) :
          LET size == preferences[t].team_size
              i    == SuitableRoom(size, TueThuDays, room_usage)
          IN  /\ visited_teams' = visited_teams \cup {t}
              /\ IF i # 0
                 THEN /\ allocations' =
                            allocations \o NewAllocations(t, rooms[i], TueThuDays)
                      /\ room_usage' =
                            UsageAfter(room_usage, rooms[i], size, TueThuDays)
                      /\ UNCHANGED tue_thu_unplaced
                 ELSE /\ tue_thu_unplaced' = Append(tue_thu_unplaced, t)
                      /\ UNCHANGED <<allocations, room_usage>>
    /\ UNCHANGED <<preferences, rpc, mon_wed_unplaced, all_unplaced,
                   overflow_idx, unplaced_teams>>
    /\ UNCHANGED outside_rooms

\* AllUnplaced with the Tuesday/Thursday list forgotten
AllUnplacedMonWedOnly(mw, tt) == mw

\* line 66
AllUnplaced(mw, tt) == mw \o tt

\* lines 63-66
TueThuDone ==
    /\ rpc = "tue_thu"
    /\ tue_thu_teams \subseteq visited_teams
    /\ rpc' = "overflow"
    /\ all_unplaced' = AllUnplaced(mon_wed_unplaced, tue_thu_unplaced)
    /\ overflow_idx' = 1
    /\ UNCHANGED <<preferences, visited_teams, room_usage, allocations,
                   mon_wed_unplaced, tue_thu_unplaced, unplaced_teams>>
    /\ UNCHANGED outside_rooms

\* AlternativeDays with the team's own day pair tried once more
AlternativeDaysSame(t) ==
    IF preferences[t].preferred_days = MonWed THEN MonWedDays ELSE TueThuDays

\* line 70
AlternativeDays(t) ==
    IF preferences[t].preferred_days = MonWed THEN TueThuDays ELSE MonWedDays

\* lines 68-79 for one team of all_unplaced: a call of
\* _allocate_teams_for_days with the one team and the allocations so far
OverflowStep ==
    /\ rpc = "overflow"
    /\ overflow_idx <= Len(all_unplaced)
    /\ LET t     == all_unplaced[overflow_idx]
           days  == AlternativeDays(t)
           size  == preferences[t].team_size
           usage == ExistingUsage(days, allocations)
           i     == SuitableRoom(size, days, usage)
       IN  IF i # 0
           THEN /\ allocations' = allocations \o NewAllocations(t, rooms[i], days)
                /\ room_usage' = UsageAfter(usage, rooms[i], size, days)
                /\ UNCHANGED unplaced_teams
           ELSE /\ unplaced_teams' = Append(unplaced_teams, t)
                /\ room_usage' = usage
                /\ UNCHANGED allocations
    /\ overflow_idx' = overflow_idx + 1
    /\ UNCHANGED <<preferences, rpc, visited_teams, mon_wed_unplaced,
                   tue_thu_unplaced, all_unplaced>>
    /\ UNCHANGED outside_rooms

\* line 81
ReturnRooms ==
    /\ rpc = "overflow"
    /\ overflow_idx > Len(all_unplaced)
    /\ rpc' = "done"
    /\ UNCHANGED <<preferences, visited_teams, room_usage, allocations,
                   mon_wed_unplaced, tue_thu_unplaced, all_unplaced,
                   overflow_idx, unplaced_teams>>
    /\ UNCHANGED outside_rooms

\* the state of allocate_rooms while it is not running
RoomsIdle ==
    /\ preferences = << >>
    /\ rpc = "idle"
    /\ visited_teams = {}
    /\ room_usage = EmptyUsage(MonWedDays)
    /\ allocations = << >>
    /\ mon_wed_unplaced = << >>
    /\ tue_thu_unplaced = << >>
    /\ all_unplaced = << >>
    /\ overflow_idx = 0
    /\ unplaced_teams = << >>

(***************************************************************************)
(* OasisAllocator                                                          *)
(***************************************************************************)
daily_capacity == 11

weekdays == <<"Monday", "Tuesday", "Wednesday", "Thursday", "Friday">>

max_additional_passes == 4

(***************************************************************************)
(* The preference lists Init draws from: up to MaxPeople people, of whom   *)
(* up to MaxFlexible list one of FlexibleLists and the others list Monday  *)
(* alone: a day holds daily_capacity people only when that many people     *)
(* list it.  People who list the same days differ in their names only, so  *)
(* one list per multiset of people is drawn: the flexible people first, in *)
(* the order of FlexibleLists.                                             *)
(***************************************************************************)
MondayOnly == <<"Monday">>

FlexibleLists ==
    << <<"Tuesday">>,
       <<"Monday", "Tuesday">>,
       <<"Monday", "Tuesday", "Wednesday", "Thursday", "Friday">> >>

RECURSIVE FlexibleGroups(_, _)
FlexibleGroups(n, from) ==
    IF n = 0 THEN {<< >>}
    ELSE UNION {{<<FlexibleLists[k]>> \o s : s \in FlexibleGroups(n - 1, k)} :
                    k \in from .. Len(FlexibleLists)}

OasisPreferenceLists ==
    UNION {UNION {{f \o [i \in 1 .. m |-> MondayOnly] : m \in 0 .. (MaxPeople - n)} :
                     f \in FlexibleGroups(n, 1)} :
              n \in 0 .. MaxFlexible}

\* Two lists of more people: twelve people who list Monday alone and one who
\* lists the five days, so that somebody is left without a day while somebody
\* else has days to gain in every bonus pass; fifteen people who list Monday
\* alone
AllWeek == FlexibleLists[3]

OasisScenarioLists ==
    { <<AllWeek>> \o [i \in 1 .. daily_capacity + 1 |-> MondayOnly],
      [i \in 1 .. daily_capacity + 4 |-> MondayOnly] }

\* OasisPreference.to_dict: the fields preferred_day_1 .. preferred_day_5,
\* None where the person chose fewer days
None == "None"

OasisPreference_to_dict(preferred_days) ==
    [i \in 1 .. Len(weekdays) |->
        IF i <= Len(preferred_days) THEN preferred_days[i] ELSE None]

\* the fields that hold a day, in their order
parse_preferred_days_from_oasis_pref(pref) ==
    SelectSeq(pref, LAMBDA day : day # None)

\* lines 190-200
ParsedPreferences(prefs) ==
    [i \in DOMAIN prefs |->
        parse_preferred_days_from_oasis_pref(OasisPreference_to_dict(prefs[i]))]

PersonNames == DOMAIN parsed_preferences

(***************************************************************************)
(* random.shuffle of the people: the next person walked is any person the  *)
(* sweep has yet to walk.  People with the same preferred days who hold    *)
(* the same days are interchangeable, and of those the one of the lowest   *)
(* name stands for all.                                                    *)
(***************************************************************************)
NextShuffled(left) ==
    {p \in left :
        \A q \in left :
            q < p => ~(/\ parsed_preferences[q] = parsed_preferences[p]
                       /\ person_allocations[q] = person_allocations[p])}

\* lines 222, 256, 292: the day has capacity left
HasCapacityOffByOne(day) ==
    BagCardinality(daily_allocations[day]) < daily_capacity - 1

HasCapacityInclusive(day) ==
    BagCardinality(daily_allocations[day]) <= daily_capacity

HasCapacity(day) ==
    BagCardinality(daily_allocations[day]) < daily_capacity

\* FirstChoices trying one preferred day only
FirstChoicesOneTry(preferred_days) ==
    IF preferred_days = << >> THEN {}
    ELSE {d \in {preferred_days[1]} : HasCapacity(d)}

\* FirstChoices over all the weekdays
FirstChoicesAnyDay(preferred_days) ==
    {d \in Range(weekdays) : HasCapacity(d)}

\* lines 218-222 and 252-256: the preferred days are shuffled and the first of
\* them with capacity is taken, which any preferred day with capacity can be
FirstChoices(preferred_days) ==
    {d \in Range(preferred_days) : HasCapacity(d)}

\* BonusDays without the test that the person does not hold the day
BonusDaysAnyDay(preferred_days, current_days) ==
    {i \in DOMAIN preferred_days : HasCapacity(preferred_days[i])}

\* line 292: the places in preferred_days of the days the person does not hold
\* and that have capacity
BonusDays(preferred_days, current_days) ==
    {i \in DOMAIN preferred_days :
        /\ preferred_days[i] \notin Range(current_days)
        /\ HasCapacity(preferred_days[i])}

\* max_additional_passes one lower
OnePassLess == max_additional_passes - 1

\* max_additional_passes one higher
OnePassMore == max_additional_passes + 1

\* lines 274: the bonus passes allowed
BonusPasses == max_additional_passes

\* lines 232-233, 265-266, 301-302
Allocate(p, day) ==
    /\ daily_allocations' =
          [daily_allocations EXCEPT ![day] = @ (+) SetToBag({p})]
    /\ person_allocations' =
          [person_allocations EXCEPT ![p] = Append(@, day)]

\* the list without its entries that are p (list.remove; no name is twice in it)
Remove(list, p) == SelectSeq(list, LAMBDA x : x # p)

OasisInit ==
    /\ parsed_preferences \in
          {ParsedPreferences(l) : l \in OasisPreferenceLists \cup OasisScenarioLists}
    /\ opc = "start"
    /\ daily_allocations = [d \in Range(weekdays) |-> EmptyBag]
    /\ person_allocations = [p \in DOMAIN parsed_preferences |-> << >>]
    /\ unvisited = {}
    /\ unallocated_people = << >>
    /\ retry_todo = << >>
    /\ pass_num = 0
    /\ made_allocation = FALSE
    /\ sweeps = 0
    /\ retry_placed = 0

\* the state of allocate_oasis while it is not running
OasisIdle ==
    /\ parsed_preferences = << >>
    /\ opc = "idle"
    /\ daily_allocations = [d \in Range(weekdays) |-> EmptyBag]
    /\ person_allocations = << >>
    /\ unvisited = {}
    /\ unallocated_people = << >>
    /\ retry_todo = << >>
    /\ pass_num = 0
    /\ made_allocation = FALSE
    /\ sweeps = 0
    /\ retry_placed = 0

\* lines 187-212: nothing to do, or the first sweep starts
OasisStart ==
    /\ opc = "start"
    /\ IF parsed_preferences = << >>
       THEN /\ opc' = "done"
            /\ UNCHANGED <<unvisited, sweeps>>
       ELSE /\ opc' = "guarantee"
            /\ unvisited' = PersonNames
            /\ sweeps' = 1
    /\ UNCHANGED <<parsed_preferences, daily_allocations, person_allocations,
                   unallocated_people, retry_todo, pass_num, made_allocation>>
    /\ UNCHANGED retry_placed
    /\ UNCHANGED outside_oasis

\* lines 214-238 for one person: the code removes the person from the
\* shuffled list on success; unallocated_people here is the part of that
\* list already walked, and unvisited the rest of it
GuaranteeStep ==
    /\ opc = "guarantee"
    /\ \E p \in NextShuffled(unvisited) :
          /\ unvisited' = unvisited \ {p}
          /\ IF FirstChoices(parsed_preferences[p]) = {}
             THEN /\ unallocated_people' = Append(unallocated_people, p)
                  /\ UNCHANGED <<daily_allocations, person_allocations>>
             ELSE /\ \E d \in FirstChoices(parsed_preferences[p]) : Allocate(p, d)
                  /\ UNCHANGED unallocated_people
    /\ UNCHANGED <<parsed_preferences, opc, retry_todo, pass_num,
                   made_allocation, sweeps>>
    /\ UNCHANGED retry_placed
    /\ UNCHANGED outside_oasis

\* line 243: the retry loop starts
GuaranteeDone ==
    /\ opc = "guarantee"
    /\ unvisited = {}
    /\ opc' = "retry_loop"
    /\ pass_num' = 0
    /\ UNCHANGED <<parsed_preferences, daily_allocations, person_allocations,
                   unvisited, unallocated_people, retry_todo, made_allocation,
                   sweeps>>
    /\ UNCHANGED retry_placed
    /\ UNCHANGED outside_oasis

\* lines 243-248: a retry pass starts on a copy of unallocated_people
RetryPassStart ==
    /\ opc = "retry_loop"
    /\ pass_num < max_additional_passes
    /\ unallocated_people # << >>
    /\ opc' = "retry_pass"
    /\ retry_todo' = unallocated_people
    /\ sweeps' = sweeps + 1
    /\ retry_placed' = 0
    /\ UNCHANGED <<parsed_preferences, daily_allocations, person_allocations,
                   unvisited, unallocated_people, pass_num, made_allocation>>
    /\ UNCHANGED outside_oasis

\* lines 248-271 for one person
RetryStep ==
    /\ opc = "retry_pass"
    /\ retry_todo # << >>
    /\ LET p == Head(retry_todo)
       IN  IF FirstChoices(parsed_preferences[p]) = {}
           THEN UNCHANGED <<daily_allocations, person_allocations,
                            unallocated_people, retry_placed>>
           ELSE /\ \E d \in FirstChoices(parsed_preferences[p]) : Allocate(p, d)
                /\ unallocated_people' = Remove(unallocated_people, p)
                /\ retry_placed' = retry_placed + 1
    /\ retry_todo' = Tail(retry_todo)
    /\ UNCHANGED <<parsed_preferences, opc, unvisited, pass_num,
                   made_allocation, sweeps>>
    /\ UNCHANGED outside_oasis

\* line 243: the retry pass is over, the next round of the loop
RetryPassEnd ==
    /\ opc = "retry_pass"
    /\ retry_todo = << >>
    /\ opc' = "retry_loop"
    /\ pass_num' = pass_num + 1
    /\ UNCHANGED <<parsed_preferences, daily_allocations, person_allocations,
                   unvisited, unallocated_people, retry_todo, made_allocation,
                   sweeps>>
    /\ UNCHANGED retry_placed
    /\ UNCHANGED outside_oasis

\* lines 243-245 and 274: the retry loop is left, the bonus loop starts
RetryLoopEnd ==
    /\ opc = "retry_loop"
    /\ (pass_num >= max_additional_passes \/ unallocated_people = << >>)
    /\ opc' = "bonus_loop"
    /\ pass_num' = 0
    /\ UNCHANGED <<parsed_preferences, daily_allocations, person_allocations,
                   unvisited, unallocated_people, retry_todo, made_allocation,
                   sweeps>>
    /\ UNCHANGED retry_placed
    /\ UNCHANGED outside_oasis

\* lines 274-279: a bonus pass starts on a fresh shuffle of all the people
BonusPassStart ==
    /\ opc = "bonus_loop"
    /\ pass_num < BonusPasses
    /\ opc' = "bonus_pass"
    /\ made_allocation' = FALSE
    /\ unvisited' = PersonNames
    /\ sweeps' = sweeps + 1
    /\ UNCHANGED <<parsed_preferences, daily_allocations, person_allocations,
                   unallocated_people, retry_todo, pass_num>>
    /\ UNCHANGED retry_placed
    /\ UNCHANGED outside_oasis

\* lines 281-304 for one person
BonusStep ==
    /\ opc = "bonus_pass"
    /\ \E p \in NextShuffled(unvisited) :
          LET current_days   == person_allocations[p]
              preferred_days == parsed_preferences[p]
              open           == BonusDays(preferred_days, current_days)
          IN  /\ unvisited' = unvisited \ {p}
              /\ IF Len(current_days) >= Len(preferred_days) \/ open = {}
                 THEN UNCHANGED <<daily_allocations, person_allocations,
                                  made_allocation>>
                 ELSE /\ Allocate(p, preferred_days[
                              CHOOSE i \in open : \A j \in open : i <= j])
                      /\ made_allocation' = TRUE
    /\ UNCHANGED <<parsed_preferences, opc, unallocated_people, retry_todo,
                   pass_num, sweeps>>
    /\ UNCHANGED retry_placed
    /\ UNCHANGED outside_oasis

\* lines 306-307 and 274: the bonus pass is over
BonusPassEnd ==
    /\ opc = "bonus_pass"
    /\ unvisited = {}
    /\ IF ~made_allocation
       THEN opc' = "return" /\ UNCHANGED pass_num
       ELSE opc' = "bonus_loop" /\ pass_num' = pass_num + 1
    /\ UNCHANGED <<parsed_preferences, daily_allocations, person_allocations,
                   unvisited, unallocated_people, retry_todo, made_allocation,
                   sweeps>>
    /\ UNCHANGED retry_placed
    /\ UNCHANGED outside_oasis

\* line 274: the bonus loop has run all its passes
BonusLoopEnd ==
    /\ opc = "bonus_loop"
    /\ pass_num >= BonusPasses
    /\ opc' = "return"
    /\ UNCHANGED <<parsed_preferences, daily_allocations, person_allocations,
                   unvisited, unallocated_people, retry_todo, pass_num,
                   made_allocation, sweeps>>
    /\ UNCHANGED retry_placed
    /\ UNCHANGED outside_oasis

\* lines 309-314: the returned list holds the records of all the days
OasisReturn ==
    /\ opc = "return"
    /\ opc' = "done"
    /\ UNCHANGED <<parsed_preferences, daily_allocations, person_allocations,
                   unvisited, unallocated_people, retry_todo, pass_num,
                   made_allocation, sweeps>>
    /\ UNCHANGED retry_placed
    /\ UNCHANGED outside_oasis

(***************************************************************************)
(* add_adhoc_allocation, and the ad-hoc form of the application that calls *)
(* it.  An Oasis allocation record is [person_name, day_of_week,           *)
(* confirmed]; a call returns << >> for None and <<record>> otherwise.     *)
(***************************************************************************)
OasisAllocation(person_name, day_of_week) ==
    [person_name |-> person_name, day_of_week |-> day_of_week, confirmed |-> FALSE]

\* the stored lists Init draws from: the first k people hold Monday
MondayRecords(k) == [i \in 1 .. k |-> OasisAllocation(i, "Monday")]

ExistingLists == {MondayRecords(k) : k \in 0 .. MaxPeople}

\* the people who use the form: one of the stored list, one from outside
AdhocPeople == {1, MaxPeople + 1}

\* the days a call can name, one of them not a weekday
AdhocDays == Range(weekdays) \cup {"Saturday"}

\* lines 316-332
get_daily_availability(existing) ==
    LET daily_counts ==
            [d \in Range(weekdays) |->
                Cardinality({i \in DOMAIN existing : existing[i].day_of_week = d})]
    IN  [d \in Range(weekdays) |->
            IF daily_capacity - daily_counts[d] > 0
            THEN daily_capacity - daily_counts[d] ELSE 0]

\* can_add_person_to_day with a day of no remaining capacity let through
can_add_inclusive(day, existing) ==
    /\ day \in Range(weekdays)
    /\ get_daily_availability(existing)[day] >= 0

\* lines 334-341
can_add_person_to_day(day, existing) ==
    /\ day \in Range(weekdays)
    /\ get_daily_availability(existing)[day] > 0

\* get_current_week_dates: the five weekdays of the current week
date_map_days == Range(weekdays)

\* add_adhoc_allocation without the test that the person holds the day
add_adhoc_unchecked(person_name, day, existing) ==
    IF ~can_add_person_to_day(day, existing) THEN << >>
    ELSE IF day \notin date_map_days THEN << >>
    ELSE <<OasisAllocation(person_name, day)>>

\* lines 343-371
add_adhoc_allocation(person_name, day, existing) ==
    IF ~can_add_person_to_day(day, existing) THEN << >>
    ELSE IF \E i \in DOMAIN existing :
                /\ existing[i].person_name = person_name
                /\ existing[i].day_of_week = day
         THEN << >>
    ELSE IF day \notin date_map_days THEN << >>
    ELSE <<OasisAllocation(person_name, day)>>

AdhocInit ==
    /\ existing_allocations \in ExistingLists
    /\ apc = "form"
    /\ adhoc_request = << >>
    /\ new_allocation = << >>
    /\ adhoc_calls = 0

\* app.py line 1543: the form calls add_adhoc_allocation, which returns
\* without having touched the list it was given
AddAdhoc ==
    /\ apc = "form"
    /\ adhoc_calls < MaxAdhoc
    /\ \E person_name \in AdhocPeople : \E day \in AdhocDays :
          /\ adhoc_request' = <<person_name, day>>
          /\ new_allocation' =
                add_adhoc_allocation(person_name, day, existing_allocations)
    /\ apc' = "called"
    /\ adhoc_calls' = adhoc_calls + 1
    /\ UNCHANGED existing_allocations
    /\ UNCHANGED outside_adhoc

\* app.py lines 1545-1551: a returned record is appended and stored
StoreAdhoc ==
    /\ apc = "called"
    /\ existing_allocations' = existing_allocations \o new_allocation
    /\ apc' = "form"
    /\ UNCHANGED <<adhoc_request, new_allocation, adhoc_calls>>
    /\ UNCHANGED outside_adhoc

\* the state of the ad-hoc form while it is not in use
AdhocIdle ==
    /\ existing_allocations = << >>
    /\ apc = "idle"
    /\ adhoc_request = << >>
    /\ new_allocation = << >>
    /\ adhoc_calls = 0

(***************************************************************************)
(* validate_allocation_results.  A room allocation record is [team_name,   *)
(* room_name, day_of_week].  An entry of errors is a record [kind, key,    *)
(* detail] for the three parts of the message: the text before the colon,  *)
(* the room and day (or the day) it names, and the names or count after.   *)
(***************************************************************************)
WeeklyAllocation(team_name, room_name, day_of_week) ==
    [team_name |-> team_name, room_name |-> room_name, day_of_week |-> day_of_week]

SeqsUpTo(S, n) == UNION {[1 .. m -> S] : m \in 0 .. n}

\* the lists of room allocation records Init draws from
WeeklyRecordLists ==
    SeqsUpTo({WeeklyAllocation(t, r, d) :
                 t \in {1, 2}, r \in {"Room A", "Room B"},
                 d \in {"Monday", "Tuesday"}},
             MaxWeekly)

\* the lists of Oasis allocation records Init draws from: the first k people
\* on Monday, followed by a few records of a listed person and an outsider
OasisRecordLists ==
    {MondayRecords(k) \o extra :
        k \in 0 .. MaxPeople,
        extra \in SeqsUpTo({OasisAllocation(p, d) :
                               p \in {1, MaxPeople + 1},
                               d \in {"Monday", "Tuesday"}},
                           MaxExtra)}

\* the elements of a set of numbers in ascending order
RECURSIVE InOrder(_)
InOrder(S) ==
    IF S = {} THEN << >>
    ELSE LET m == CHOOSE x \in S : \A y \in S : x <= y
         IN  <<m>> \o InOrder(S \ {m})

RECURSIVE Concat(_)
Concat(ss) == IF ss = << >> THEN << >> ELSE Head(ss) \o Concat(Tail(ss))

\* the keys of a dict filled in the order of keys: each key once, in the
\* order of its first occurrence
DictKeys(keys) ==
    LET first == InOrder({i \in DOMAIN keys : \A j \in 1 .. (i - 1) : keys[j] # keys[i]})
    IN  [n \in DOMAIN first |-> keys[first[n]]]

\* the list a dict of lists holds under key k: the values appended for k
DictList(keys, values, k) ==
    LET at == InOrder({i \in DOMAIN keys : keys[i] = k})
    IN  [n \in DOMAIN at |-> values[at[n]]]

\* NewResults with the dict of an earlier call used again
KeptResults ==
    IF validation_calls = 0
    THEN [valid |-> TRUE, errors |-> << >>, warnings |-> << >>]
    ELSE [valid    |-> validation_results.valid,
          errors   |-> validation_results.errors,
          warnings |-> validation_results.warnings]

\* lines 393-398
NewResults == [valid |-> TRUE, errors |-> << >>, warnings |-> << >>]

\* the room-day key of the record (room_name and day_of_week, which the
\* code joins with "_")
RoomKeys(weekly) ==
    [i \in DOMAIN weekly |-> <<weekly[i].room_name, weekly[i].day_of_week>>]

TeamNamesOf(weekly) == [i \in DOMAIN weekly |-> weekly[i].team_name]

\* lines 400-415: one entry for every key whose list holds more than one name
RoomErrors(weekly) ==
    LET keys == DictKeys(RoomKeys(weekly))
    IN  Concat([n \in DOMAIN keys |->
            LET teams == DictList(RoomKeys(weekly), TeamNamesOf(weekly), keys[n])
            IN  IF Len(teams) > 1
                THEN <<[kind |-> "Room conflict", key |-> keys[n], detail |-> teams]>>
                ELSE << >>])

OasisDays(oasis) == [i \in DOMAIN oasis |-> oasis[i].day_of_week]

PersonNamesOf(oasis) == [i \in DOMAIN oasis |-> oasis[i].person_name]

\* lines 417-435: for every day, in the order of the dict, the capacity
\* entry and then the duplicates entry.  The duplicated names are listed in
\* ascending order (the code lists them in the iteration order of a set).
OasisErrors(oasis) ==
    LET days == DictKeys(OasisDays(oasis))
    IN  Concat([n \in DOMAIN days |->
            LET people == DictList(OasisDays(oasis), PersonNamesOf(oasis), days[n])
                duplicates ==
                    {people[i] : i \in {j \in DOMAIN people :
                        Cardinality({m \in DOMAIN people : people[m] = people[j]}) > 1}}
            IN  (IF Len(people) > 11
                 THEN <<[kind |-> "Oasis capacity exceeded", key |-> <<days[n]>>,
                         detail |-> <<Len(people)>>]>>
                 ELSE << >>)
                \o
                (IF Len(people) # Cardinality(Range(people))
                 THEN <<[kind |-> "Duplicate Oasis allocations", key |-> <<days[n]>>,
                         detail |-> InOrder(duplicates)]>>
                 ELSE << >>)])

\* StillValid with the room conflicts left out
StillValidOasisOnly(valid, room_errors, oasis_errors) ==
    IF oasis_errors # << >> THEN FALSE ELSE valid

\* lines 415, 426 and 432: every appended entry sets valid to False
StillValid(valid, room_errors, oasis_errors) ==
    IF room_errors # << >> \/ oasis_errors # << >> THEN FALSE ELSE valid

\* lines 437-445
Summary(weekly, oasis) ==
    [total_project_allocations |-> Len(weekly),
     total_oasis_allocations   |-> Len(oasis),
     unique_teams              |-> Cardinality(Range(TeamNamesOf(weekly))),
     unique_people             |-> Cardinality(Range(PersonNamesOf(oasis))),
     rooms_used                |-> Cardinality({weekly[i].room_name : i \in DOMAIN weekly}),
     oasis_daily_usage         |->
         [d \in Range(OasisDays(oasis)) |->
             Len(DictList(OasisDays(oasis), PersonNamesOf(oasis), d))]]

\* lines 390-448
validate_allocation_results(weekly, oasis) ==
    LET start        == NewResults
        room_errors  == RoomErrors(weekly)
        oasis_errors == OasisErrors(oasis)
    IN  [valid    |-> StillValid(start.valid, room_errors, oasis_errors),
         errors   |-> start.errors \o room_errors \o oasis_errors,
         warnings |-> start.warnings,
         summary  |-> Summary(weekly, oasis)]

\* the report before any call
NoResults ==
    [valid |-> TRUE, errors |-> << >>, warnings |-> << >>,
     summary |-> Summary(<< >>, << >>)]

\* A record that lacks a key carries NoKey (a room or a day) or NoName (a
\* team or a person) in its place.
NoKey == "<no key>"
NoName == 0

\* lists of manually edited records, some of which lack keys
EditedWeeklyLists ==
    SeqsUpTo({WeeklyAllocation(t, r, d) :
                 t \in {1, NoName}, r \in {"Room A", NoKey}, d \in {"Monday", NoKey}},
             MaxExtra)

EditedOasisLists ==
    SeqsUpTo({OasisAllocation(p, d) : p \in {1, NoName}, d \in {"Monday", NoKey}},
             MaxExtra)

\* lines 402-408 and 420-424: allocation['room_name'], ['day_of_week'],
\* ['team_name'] and ['person_name'] raise KeyError on a record without the key
RaisesKeyError(weekly, oasis) ==
    \/ \E i \in DOMAIN weekly :
          \/ weekly[i].room_name = NoKey
          \/ weekly[i].day_of_week = NoKey
          \/ weekly[i].team_name = NoName
    \/ \E i \in DOMAIN oasis :
          \/ oasis[i].day_of_week = NoKey
          \/ oasis[i].person_name = NoName

\* one list is varied while the other is one of a few fixed lists
ValidatorInit ==
    /\ \/ /\ weekly_allocations \in WeeklyRecordLists
          /\ oasis_allocations \in
                {<< >>, MondayRecords(daily_capacity + 1),
                 <<OasisAllocation(1, "Monday"), OasisAllocation(1, "Monday")>>}
       \/ /\ weekly_allocations \in
                {<< >>, <<WeeklyAllocation(1, "Room A", "Monday"),
                          WeeklyAllocation(2, "Room A", "Monday")>>}
          /\ oasis_allocations \in OasisRecordLists
       \/ /\ weekly_allocations \in EditedWeeklyLists
          /\ oasis_allocations = << >>
       \/ /\ weekly_allocations = << >>
          /\ oasis_allocations \in EditedOasisLists
    /\ vpc = "ready"
    /\ validation_results = NoResults
    /\ first_results = NoResults
    /\ validation_calls = 0
    /\ validation_raised = "none"

\* app.py line 1363: a call of the validator on the two lists
Validate ==
    /\ vpc = "ready"
    /\ validation_calls < MaxValidations
    /\ IF RaisesKeyError(weekly_allocations, oasis_allocations)
       THEN /\ validation_raised' = "KeyError"
            /\ UNCHANGED validation_results
       ELSE /\ validation_raised' = "none"
            /\ validation_results' =
                  validate_allocation_results(weekly_allocations, oasis_allocations)
    /\ first_results' =
          IF validation_calls = 0 THEN validation_results' ELSE first_results
    /\ validation_calls' = validation_calls + 1
    /\ UNCHANGED <<weekly_allocations, oasis_allocations, vpc>>
    /\ UNCHANGED outside_validator

\* the state of the validator while it is not in use
ValidatorIdle ==
    /\ weekly_allocations = << >>
    /\ oasis_allocations = << >>
    /\ vpc = "idle"
    /\ validation_results = NoResults
    /\ first_results = NoResults
    /\ validation_calls = 0
    /\ validation_raised = "none"

(***************************************************************************)
(* DataStorage (src/data/storage.py) and the threads that call the one     *)
(* shared instance.  A stored preference record is reduced to its name.    *)
(* A name is <<base, form>>: the form is "plain" for a name that           *)
(* strip().lower() leaves as it is, and "shouted" for a spelling of the    *)
(* same base with capitals and surrounding blanks.                         *)
(***************************************************************************)
Threads == {1, 2}

Collections == {"weekly_preferences", "oasis_preferences"}

RawNames == {<<"alpha", "plain">>, <<"alpha", "shouted">>, <<"beta", "plain">>}

\* lines 112 and 135: name.strip().lower()
Normalized(name) == <<name[1], "plain">>

\* self.lock with nobody ever kept out
LockAlwaysFree == TRUE

\* line 22: threading.Lock() lets one thread in at a time, its holder included
LockFree == store_lock = 0

StorageInit ==
    /\ store_lock = 0
    /\ stored_preferences = [c \in Collections |-> << >>]
    /\ archived_preferences = [c \in Collections |-> << >>]
    /\ last_reset = FALSE
    /\ thread_pc = [t \in Threads |-> "idle"]
    /\ thread_call = [t \in Threads |-> << >>]
    /\ thread_read = [t \in Threads |-> << >>]
    /\ thread_result = [t \in Threads |-> "none"]
    /\ thread_calls = 0

\* app.py lines 339 and 495: a thread calls add_weekly_preference or
\* add_oasis_preference
CallAdd(t) ==
    /\ thread_pc[t] = "idle"
    /\ thread_calls < MaxCalls
    /\ \E c \in Collections : \E name \in RawNames :
          thread_call' = [thread_call EXCEPT ![t] = <<c, name>>]
    /\ thread_pc' = [thread_pc EXCEPT ![t] = "add_acquire"]
    /\ thread_result' = [thread_result EXCEPT ![t] = "none"]
    /\ thread_calls' = thread_calls + 1
    /\ UNCHANGED <<store_lock, stored_preferences, archived_preferences,
                   last_reset, thread_read>>
    /\ UNCHANGED outside_storage

\* app.py line 1573: a thread calls archive_and_reset
CallArchive(t) ==
    /\ thread_pc[t] = "idle"
    /\ thread_calls < MaxCalls
    /\ thread_call' = [thread_call EXCEPT ![t] = <<"archive_and_reset">>]
    /\ thread_pc' = [thread_pc EXCEPT ![t] = "archive_acquire"]
    /\ thread_calls' = thread_calls + 1
    /\ UNCHANGED <<store_lock, stored_preferences, archived_preferences,
                   last_reset, thread_read, thread_result>>
    /\ UNCHANGED outside_storage

\* a thread calls update_admin_setting
CallUpdate(t) ==
    /\ thread_pc[t] = "idle"
    /\ thread_calls < MaxCalls
    /\ thread_call' = [thread_call EXCEPT ![t] = <<"update_admin_setting">>]
    /\ thread_pc' = [thread_pc EXCEPT ![t] = "update_acquire"]
    /\ thread_calls' = thread_calls + 1
    /\ UNCHANGED <<store_lock, stored_preferences, archived_preferences,
                   last_reset, thread_read, thread_result>>
    /\ UNCHANGED outside_storage

\* lines 108, 131, 184 and 192: "with self.lock" waits until the lock is
\* free and takes it
AcquireLock(t) ==
    /\ thread_pc[t] \in {"add_acquire", "archive_acquire", "update_acquire"}
    /\ LockFree
    /\ store_lock' = t
    /\ thread_pc' = [thread_pc EXCEPT ![t] =
          CASE thread_pc[t] = "add_acquire"     -> "add_read"
            [] thread_pc[t] = "archive_acquire" -> "archive_run"
            [] thread_pc[t] = "update_acquire"  -> "update_run"]
    /\ UNCHANGED <<stored_preferences, archived_preferences, last_reset,
                   thread_call, thread_read, thread_result, thread_calls>>
    /\ UNCHANGED outside_storage

\* lines 109 and 132: the stored list is read
AddRead(t) ==
    /\ thread_pc[t] = "add_read"
    /\ thread_read' = [thread_read EXCEPT ![t] = stored_preferences[thread_call[t][1]]]
    /\ thread_pc' = [thread_pc EXCEPT ![t] = "add_check"]
    /\ UNCHANGED <<store_lock, stored_preferences, archived_preferences,
                   last_reset, thread_call, thread_result, thread_calls>>
    /\ UNCHANGED outside_storage

\* lines 111-122 and 134-145: False when the list read holds the normalized
\* name, otherwise the list read is written back with the record appended
AddCheck(t) ==
    /\ thread_pc[t] = "add_check"
    /\ LET c    == thread_call[t][1]
           name == thread_call[t][2]
       IN  IF \E i \in DOMAIN thread_read[t] :
                  Normalized(thread_read[t][i]) = Normalized(name)
           THEN /\ thread_result' = [thread_result EXCEPT ![t] = "False"]
                /\ UNCHANGED stored_preferences
           ELSE /\ thread_result' = [thread_result EXCEPT ![t] = "True"]
                /\ stored_preferences' =
                      [stored_preferences EXCEPT ![c] = Append(thread_read[t], name)]
    /\ thread_pc' = [thread_pc EXCEPT ![t] = "add_exit"]
    /\ UNCHANGED <<store_lock, archived_preferences, last_reset, thread_call,
                   thread_read, thread_calls>>
    /\ UNCHANGED outside_storage

\* lines 192-209: every collection is appended to its archive and cleared;
\* line 212 then calls update_admin_setting with the lock still held
ArchiveRun(t) ==
    /\ thread_pc[t] = "archive_run"
    /\ archived_preferences' =
          [c \in Collections |-> archived_preferences[c] \o stored_preferences[c]]
    /\ stored_preferences' = [c \in Collections |-> << >>]
    /\ thread_pc' = [thread_pc EXCEPT ![t] = "update_acquire"]
    /\ UNCHANGED <<store_lock, last_reset, thread_call, thread_read,
                   thread_result, thread_calls>>
    /\ UNCHANGED outside_storage

\* lines 184-188: the setting is written and the "with" of
\* update_admin_setting releases the lock; the call returns to its caller
UpdateRun(t) ==
    /\ thread_pc[t] = "update_run"
    /\ last_reset' = TRUE
    /\ store_lock' = 0
    /\ thread_pc' = [thread_pc EXCEPT ![t] =
          IF thread_call[t] = <<"archive_and_reset">> THEN "archive_exit" ELSE "idle"]
    /\ UNCHANGED <<stored_preferences, archived_preferences, thread_call,
                   thread_read, thread_result, thread_calls>>
    /\ UNCHANGED outside_storage

\* the end of the "with self.lock" block of add_weekly_preference,
\* add_oasis_preference and archive_and_reset: the lock is released and the
\* call returns
ExitWith(t) ==
    /\ thread_pc[t] \in {"add_exit", "archive_exit"}
    /\ store_lock' = 0
    /\ thread_pc' = [thread_pc EXCEPT ![t] = "idle"]
    /\ UNCHANGED <<stored_preferences, archived_preferences, last_reset,
                   thread_call, thread_read, thread_result, thread_calls>>
    /\ UNCHANGED outside_storage

\* the state of the storage while no thread uses it
StorageIdle ==
    /\ store_lock = 0
    /\ stored_preferences = [c \in Collections |-> << >>]
    /\ archived_preferences = [c \in Collections |-> << >>]
    /\ last_reset = FALSE
    /\ thread_pc = [t \in Threads |-> "off"]
    /\ thread_call = [t \in Threads |-> << >>]
    /\ thread_read = [t \in Threads |-> << >>]
    /\ thread_result = [t \in Threads |-> "none"]
    /\ thread_calls = 0

(***************************************************************************)
(* SecurityManager.verify_admin_password and the login state it keeps in   *)
(* st.session_state.  session_state is a function on the keys that are     *)
(* set; the clock is time.time().                                          *)
(***************************************************************************)
max_login_attempts == 5

lockout_duration == 900

\* the passwords a call can be given: none, a wrong one, the right one
Passwords == {"", "guess", "trainee"}

\* line 24: SHA-256, which tells the three passwords apart
_hash_password(password) == <<"sha256", password>>

\* line 17
admin_password_hash == _hash_password("trainee")

\* _is_locked_out that never reports a lockout
never_locked_out == FALSE

\* lines 44-50
_is_locked_out ==
    IF "admin_lockout_until" \notin DOMAIN session_state THEN FALSE
    ELSE clock < session_state["admin_lockout_until"]

\* the function f with key k set to v, and without key k
SetKey(f, k, v) == [x \in DOMAIN f \cup {k} |-> IF x = k THEN v ELSE f[x]]

DelKey(f, k) == [x \in DOMAIN f \ {k} |-> f[x]]

\* lines 52-68: the session state after the attempt is tracked
_track_login_attempt(success) ==
    LET started ==
            IF "admin_login_attempts" \notin DOMAIN session_state
            THEN SetKey(session_state, "admin_login_attempts", 0)
            ELSE session_state
    IN  IF success
        THEN DelKey(SetKey(started, "admin_login_attempts", 0),
                    "admin_lockout_until")
        ELSE LET counted == SetKey(started, "admin_login_attempts",
                                   started["admin_login_attempts"] + 1)
             IN  IF counted["admin_login_attempts"] >= max_login_attempts
                 THEN SetKey(counted, "admin_lockout_until",
                             clock + lockout_duration)
                 ELSE counted

\* the time of the fifth call of a streak, once the streak has five calls
FifthAt(at, streak) ==
    IF streak = max_login_attempts /\ at = << >> THEN <<clock>> ELSE at

\* st.session_state with no key set
NoKeys == [k \in {} |-> 0]

SecurityInit ==
    /\ session_state = NoKeys
    /\ clock = 0
    /\ login_password = ""
    /\ login_result = FALSE
    /\ login_calls = 0
    /\ failed_calls = 0
    /\ fifth_failure_at = << >>
    /\ failed_guesses = 0
    /\ fifth_guess_at = << >>

\* lines 26-42: one call of verify_admin_password
VerifyAdminPassword ==
    /\ login_calls < MaxLogins
    /\ \E password \in Passwords :
          LET is_valid == _hash_password(password) = admin_password_hash
              result   == IF password = "" \/ _is_locked_out THEN FALSE
                          ELSE is_valid
          IN  /\ login_password' = password
              /\ login_result' = result
              /\ session_state' =
                    IF password = "" \/ _is_locked_out THEN session_state
                    ELSE _track_login_attempt(is_valid)
              /\ failed_calls' = IF result THEN 0 ELSE failed_calls + 1
              /\ fifth_failure_at' =
                    IF result THEN << >>
                    ELSE FifthAt(fifth_failure_at, failed_calls + 1)
              /\ failed_guesses' =
                    IF result THEN 0
                    ELSE IF password = "" THEN failed_guesses
                    ELSE failed_guesses + 1
              /\ fifth_guess_at' =
                    IF result THEN << >>
                    ELSE IF password = "" THEN fifth_guess_at
                    ELSE FifthAt(fifth_guess_at, failed_guesses + 1)
    /\ login_calls' = login_calls + 1
    /\ UNCHANGED clock
    /\ UNCHANGED outside_security

\* time passes between two calls
Tick ==
    /\ clock < MaxTicks * TickSeconds
    /\ clock' = clock + TickSeconds
    /\ UNCHANGED <<session_state, login_password, login_result, login_calls,
                   failed_calls, fifth_failure_at, failed_guesses,
                   fifth_guess_at>>
    /\ UNCHANGED outside_security

\* the state of the login while nobody logs in
SecurityIdle ==
    /\ session_state = NoKeys
    /\ clock = 0
    /\ login_password = ""
    /\ login_result = FALSE
    /\ login_calls = 0
    /\ failed_calls = 0
    /\ fifth_failure_at = << >>
    /\ failed_guesses = 0
    /\ fifth_guess_at = << >>

(***************************************************************************)
(* render_oasis_editor as the admin sessions run it: a run of the page     *)
(* reads the stored Oasis allocations, and the button that caused the run  *)
(* writes a list computed from what the run has read.  The store is locked *)
(* for each read and each write by itself (storage.py lines 162-175), and  *)
(* the sessions run in threads of their own.                               *)
(***************************************************************************)
Sessions == {1, 2}

\* the stored lists Init draws from: up to 11 people hold Monday
StoredLists == {MondayRecords(k) : k \in 1 .. daily_capacity}

\* the names typed into the form: one of the stored list, two from outside
SessionPeople == {1, MaxPeople + 1, MaxPeople + 2}

\* the days picked in the form
SessionDays == {"Monday", "Tuesday"}

\* the row an admin ticks before saving: none, or the first
TickedRows == {0, 1}

\* lines 1506-1518: the rows of the table, of which row i was ticked as
\* confirmed (none for i = 0)
updated_allocations(list, i) ==
    [n \in DOMAIN list |->
        IF n = i THEN [list[n] EXCEPT !.confirmed = TRUE] ELSE list[n]]

EditorInit ==
    /\ stored_oasis \in StoredLists
    /\ session_pc = [s \in Sessions |-> "page"]
    /\ session_allocations = [s \in Sessions |-> << >>]
    /\ added_records = {}
    /\ session_cycles = 0

\* lines 1475-1479: a click starts a run of the page, which reads the store
\* and goes on to the buttons when there is something to edit
OpenEditor(s) ==
    /\ session_pc[s] = "page"
    /\ session_cycles < MaxCycles
    /\ session_cycles' = session_cycles + 1
    /\ session_allocations' = [session_allocations EXCEPT ![s] = stored_oasis]
    /\ session_pc' = [session_pc EXCEPT ![s] =
                         IF stored_oasis = << >> THEN "page" ELSE "editor"]
    /\ UNCHANGED <<stored_oasis, added_records>>
    /\ UNCHANGED outside_editor

\* lines 1504-1522: Save Changes writes the rows of the table
SaveChanges(s) ==
    /\ session_pc[s] = "editor"
    /\ \E i \in TickedRows :
          stored_oasis' = updated_allocations(session_allocations[s], i)
    /\ session_pc' = [session_pc EXCEPT ![s] = "page"]
    /\ UNCHANGED <<session_allocations, added_records, session_cycles>>
    /\ UNCHANGED outside_editor

\* lines 1538-1551: Add Allocation appends the record add_adhoc_allocation
\* returns to the list the run has read, and writes that list
SubmitAdhoc(s) ==
    /\ session_pc[s] = "editor"
    /\ \E person_name \in SessionPeople : \E day \in SessionDays :
          LET added == add_adhoc_allocation(person_name, day,
                                            session_allocations[s])
          IN  IF added # << >>
              THEN /\ session_allocations' =
                         [session_allocations EXCEPT ![s] = @ \o added]
                   /\ stored_oasis' = session_allocations[s] \o added
                   /\ added_records' = added_records \cup {<<person_name, day>>}
              ELSE UNCHANGED <<stored_oasis, session_allocations,
                               added_records>>
    /\ session_pc' = [session_pc EXCEPT ![s] = "page"]
    /\ UNCHANGED session_cycles
    /\ UNCHANGED outside_editor

\* the state of the editor while no session has it open
EditorIdle ==
    /\ stored_oasis = << >>
    /\ session_pc = [s \in Sessions |-> "off"]
    /\ session_allocations = [s \in Sessions |-> << >>]
    /\ added_records = {}
    /\ session_cycles = 0

(***************************************************************************)
(* Specifications                                                          *)
(***************************************************************************)
InitRooms == RoomsInit /\ OasisIdle /\ AdhocIdle /\ ValidatorIdle /\ StorageIdle /\ SecurityIdle /\ EditorIdle

NextRooms ==
    \/ Start
    \/ MonWedStep
    \/ MonWedDone
    \/ TueThuStep
    \/ TueThuDone
    \/ OverflowStep
    \/ ReturnRooms

SpecRooms == InitRooms /\ [][NextRooms]_vars

InitOasis == OasisInit /\ RoomsIdle /\ AdhocIdle /\ ValidatorIdle /\ StorageIdle /\ SecurityIdle /\ EditorIdle

NextOasis ==
    \/ OasisStart
    \/ GuaranteeStep
    \/ GuaranteeDone
    \/ RetryPassStart
    \/ RetryStep
    \/ RetryPassEnd
    \/ RetryLoopEnd
    \/ BonusPassStart
    \/ BonusStep
    \/ BonusPassEnd
    \/ BonusLoopEnd
    \/ OasisReturn

SpecOasis == InitOasis /\ [][NextOasis]_vars

InitAdhoc == AdhocInit /\ RoomsIdle /\ OasisIdle /\ ValidatorIdle /\ StorageIdle /\ SecurityIdle /\ EditorIdle

NextAdhoc ==
    \/ AddAdhoc
    \/ StoreAdhoc

SpecAdhoc == InitAdhoc /\ [][NextAdhoc]_vars

InitValidator == ValidatorInit /\ RoomsIdle /\ OasisIdle /\ AdhocIdle /\ StorageIdle /\ SecurityIdle /\ EditorIdle

NextValidator == Validate

SpecValidator == InitValidator /\ [][NextValidator]_vars

InitStorage ==
    /\ StorageInit
    /\ RoomsIdle /\ OasisIdle /\ AdhocIdle /\ ValidatorIdle /\ SecurityIdle
    /\ EditorIdle

NextStorage ==
    \E t \in Threads :
        \/ CallAdd(t)
        \/ CallArchive(t)
        \/ CallUpdate(t)
        \/ AcquireLock(t)
        \/ AddRead(t)
        \/ AddCheck(t)
        \/ ArchiveRun(t)
        \/ UpdateRun(t)
        \/ ExitWith(t)

SpecStorage == InitStorage /\ [][NextStorage]_vars

InitSecurity ==
    /\ SecurityInit
    /\ RoomsIdle /\ OasisIdle /\ AdhocIdle /\ ValidatorIdle /\ StorageIdle
    /\ EditorIdle

NextSecurity ==
    \/ VerifyAdminPassword
    \/ Tick

SpecSecurity == InitSecurity /\ [][NextSecurity]_vars

InitEditor ==
    /\ EditorInit
    /\ RoomsIdle /\ OasisIdle /\ AdhocIdle /\ ValidatorIdle /\ StorageIdle
    /\ SecurityIdle

NextEditor ==
    \E s \in Sessions :
        \/ OpenEditor(s)
        \/ SaveChanges(s)
        \/ SubmitAdhoc(s)

SpecEditor == InitEditor /\ [][NextEditor]_vars

(***************************************************************************)
(* validate_allocation_results, lines 400-415: the keys (room, day) whose  *)
(* list of team names holds more than one entry.                           *)
(***************************************************************************)
RoomConflicts(weekly) ==
    {k \in {<<weekly[i].room_name, weekly[i].day_of_week>> :
                i \in DOMAIN weekly} :
        Cardinality({i \in DOMAIN weekly :
                        /\ weekly[i].room_name = k[1]
                        /\ weekly[i].day_of_week = k[2]}) > 1}

(***************************************************************************)
(* Properties of allocate_rooms                                            *)
(***************************************************************************)
WeekDays4 == Range(MonWedDays) \cup Range(TueThuDays)

RecordsAt(room, day) ==
    {i \in DOMAIN allocations :
        allocations[i].room_name = room /\ allocations[i].day_of_week = day}

RecordsOf(t) == {i \in DOMAIN allocations : allocations[i].team_name = t}

\* the summed sizes of the teams assigned to a room on a day
Occupancy(room, day) ==
    SumOver(RecordsAt(room, day),
            [i \in DOMAIN allocations |->
                preferences[allocations[i].team_name].team_size])

PreferredDays(t) ==
    IF preferences[t].preferred_days = MonWed THEN MonWedDays ELSE TueThuDays

PlacedOnPreferred(t) ==
    \E i \in RecordsOf(t) : allocations[i].day_of_week \in Range(PreferredDays(t))

PlacedOnAlternative(t) ==
    \E i \in RecordsOf(t) : allocations[i].day_of_week \in Range(AlternativeDays(t))

\* C1: in every state of allocate_rooms (after every placement of the main
\* and overflow passes, and in the result) the sizes of the teams assigned to
\* a room on a day sum to at most the room's capacity.
C1_RoomCapacity ==
    \A r \in Range(rooms) : \A d \in WeekDays4 :
        Occupancy(r, d) <= room_capacities[r]

\* a run has returned in which two teams share a room that is exactly full
\* and the overflow pass has placed a team
C1_Witness ==
    /\ rpc = "done"
    /\ \E r \in Range(rooms) : \E d \in WeekDays4 :
          /\ Cardinality(RecordsAt(r, d)) >= 2
          /\ Occupancy(r, d) = room_capacities[r]
    /\ \E t \in TeamNames : PlacedOnAlternative(t)

\* C2: no room-day of a result of allocate_rooms is assigned to more than
\* one team, so that the validator reports no room conflict on it.
C2_NoRoomConflict ==
    rpc = "done" =>
        /\ \A r \in Range(rooms) : \A d \in WeekDays4 :
              Cardinality({allocations[i].team_name : i \in RecordsAt(r, d)}) <= 1
        /\ RoomConflicts(allocations) = {}

\* C3: in a result of allocate_rooms a team has no record or exactly two,
\* and the two are for the two days of one day-pair, in one room.
C3_BothDaysOneRoom ==
    rpc = "done" =>
        \A t \in TeamNames :
            \/ RecordsOf(t) = {}
            \/ /\ Cardinality(RecordsOf(t)) = 2
               /\ \A i, j \in RecordsOf(t) :
                     allocations[i].room_name = allocations[j].room_name
               /\ {allocations[i].day_of_week : i \in RecordsOf(t)}
                     \in {Range(MonWedDays), Range(TueThuDays)}

\* a run has returned with a team on its preferred days, a team the overflow
\* pass moved to the other day-pair, and a team without a record
C3_Witness ==
    /\ rpc = "done"
    /\ \E t \in TeamNames : PlacedOnPreferred(t)
    /\ \E t \in TeamNames : PlacedOnAlternative(t)
    /\ \E t \in TeamNames : RecordsOf(t) = {}

\* C4: a result of allocate_rooms partitions the teams: every team is in the
\* allocations and not in unplaced, or not in the allocations and exactly
\* once in unplaced.
C4_Partition ==
    rpc = "done" =>
        \A t \in TeamNames :
            LET times == Cardinality({i \in DOMAIN unplaced_teams :
                                         unplaced_teams[i] = t})
            IN  IF RecordsOf(t) # {} THEN times = 0 ELSE times = 1

\* a run has returned with a team unplaced, a team the overflow pass placed
\* and a team the main pass placed
C4_Witness ==
    /\ rpc = "done"
    /\ unplaced_teams # << >>
    /\ \E t \in TeamNames : PlacedOnAlternative(t)
    /\ \E t \in TeamNames : PlacedOnPreferred(t)

(***************************************************************************)
(* Properties of allocate_oasis                                            *)
(***************************************************************************)
Allocated(day) == BagCardinality(daily_allocations[day])

HoldsNoDay(p) == person_allocations[p] = << >>

\* the number of people who list the day
Requested(day) ==
    Cardinality({p \in PersonNames : day \in Range(parsed_preferences[p])})

TotalDemand ==
    SumOver(PersonNames, [p \in PersonNames |-> Len(parsed_preferences[p])])

\* C5: in every state of allocate_oasis (after each placement of the
\* guarantee, retry and bonus passes, and in the result) every weekday holds
\* at most 11 allocation records.
C5_DailyCapacity ==
    \A d \in Range(weekdays) : Allocated(d) <= daily_capacity

\* a run has returned in which a day is full and a person who lists that day
\* was turned away
C5_Witness ==
    /\ opc = "done"
    /\ \E p \in PersonNames : \E d \in Range(parsed_preferences[p]) :
          /\ Allocated(d) = daily_capacity
          /\ d \notin Range(person_allocations[p])

\* C6: no person is recorded twice for the same day, whichever passes made
\* the records.
C6_NoDuplicateDay ==
    \A d \in Range(weekdays) : \A p \in PersonNames :
        CopiesIn(p, daily_allocations[d]) <= 1

\* a run has returned in which the guarantee pass and the bonus passes both
\* gave days to one person
C6_Witness ==
    /\ opc = "done"
    /\ \E p \in PersonNames : Len(person_allocations[p]) >= 2

\* whether everybody from person i on can be given one preferred day each,
\* with load[d] people on day d already and at most daily_capacity on a day:
\* a search through all the assignments
RECURSIVE Assignable(_, _)
Assignable(i, load) ==
    \/ i > Len(parsed_preferences)
    \/ \E d \in Range(parsed_preferences[i]) :
          /\ load[d] < daily_capacity
          /\ Assignable(i + 1, [load EXCEPT ![d] = @ + 1])

CapacityAllows == Assignable(1, [d \in Range(weekdays) |-> 0])

\* C7: when some assignment gives every person one of their preferred days
\* with at most 11 people on a day, every run of allocate_oasis gives every
\* person at least one day.
C7_EveryoneServedWhenCapacityAllows ==
    (opc = "done" /\ CapacityAllows) =>
        \A p \in PersonNames : ~HoldsNoDay(p)

\* C8: when at most 55 person-days are requested and no weekday is requested
\* by more than 11 people, every run of allocate_oasis gives every person at
\* least one day.
C8_EveryoneServedUnderSlack ==
    (/\ opc = "done"
     /\ TotalDemand <= daily_capacity * Len(weekdays)
     /\ \A d \in Range(weekdays) : Requested(d) <= daily_capacity) =>
        \A p \in PersonNames : ~HoldsNoDay(p)

\* a run has returned for people of whom exactly 11 list one day, no day
\* being listed by more
C8_Witness ==
    /\ opc = "done"
    /\ TotalDemand <= daily_capacity * Len(weekdays)
    /\ \A d \in Range(weekdays) : Requested(d) <= daily_capacity
    /\ \E d \in Range(weekdays) : Requested(d) = daily_capacity
    /\ \A p \in PersonNames : ~HoldsNoDay(p)

\* C9: a person who holds a day is granted a further day d only after every
\* person has been tried for a first day, and at that moment nobody who lists
\* d holds no day.
C9_FirstDaysFirst ==
    [][\A p \in PersonNames :
          (~HoldsNoDay(p) /\ person_allocations'[p] # person_allocations[p]) =>
              /\ opc \notin {"start", "guarantee"}
              /\ \A q \in PersonNames :
                    person_allocations'[p][Len(person_allocations'[p])]
                        \in Range(parsed_preferences[q]) => ~HoldsNoDay(q)]_vars

\* a further day has been granted to a person while another person holds no
\* day
C9_Witness ==
    /\ opc = "bonus_pass"
    /\ made_allocation
    /\ \E p \in PersonNames : Len(person_allocations[p]) >= 2
    /\ \E q \in PersonNames : HoldsNoDay(q)

\* C10: when allocate_oasis returns, every preferred day of a person that
\* the person was not granted holds exactly 11 people.
C10_RemainingCapacityFilled ==
    opc = "done" =>
        \A p \in PersonNames :
            \A d \in Range(parsed_preferences[p]) \ Range(person_allocations[p]) :
                Allocated(d) = daily_capacity

\* a run has returned in which a person holds all five days and another
\* person was not granted a preferred day
C10_Witness ==
    /\ opc = "done"
    /\ \E p \in PersonNames : Len(person_allocations[p]) = Len(weekdays)
    /\ \E p \in PersonNames :
          Range(parsed_preferences[p]) \ Range(person_allocations[p]) # {}

Placed == {t \in TeamNames : RecordsOf(t) # {}}

\* C11 (as stated): when ten teams of four all ask for Monday & Wednesday,
\* allocate_rooms places at most nine of them and returns at least one name
\* in unplaced.
C11_AtMostNinePlaced ==
    (rpc = "done" /\ preferences = TenTeamsOfFour) =>
        /\ Cardinality(Placed) <= 9
        /\ Len(unplaced_teams) >= 1

\* C11 (amended): when ten teams of four all ask for Monday & Wednesday,
\* allocate_rooms places nine of them on Monday and Wednesday, the overflow
\* pass places the tenth on Tuesday and Thursday, and unplaced is empty.
C11_TenthPlacedByOverflow ==
    (rpc = "done" /\ preferences = TenTeamsOfFour) =>
        /\ Cardinality({t \in TeamNames : PlacedOnPreferred(t)}) = 9
        /\ Cardinality({t \in TeamNames : PlacedOnAlternative(t)}) = 1
        /\ Cardinality(Placed) = 10
        /\ unplaced_teams = << >>

\* the run on the ten teams has returned, after its main pass left a team
\* to the overflow pass
C11_Witness ==
    /\ rpc = "done"
    /\ preferences = TenTeamsOfFour
    /\ Len(all_unplaced) = 1

\* Whether every team of todo can be given one room on both days of one day
\* pair, on top of load (per day pair and room, the sizes already there),
\* with every room within its capacity.
RECURSIVE CanPlaceAll(_, _)
CanPlaceAll(todo, load) ==
    IF todo = {} THEN TRUE
    ELSE LET t    == CHOOSE u \in todo : TRUE
             size == preferences[t].team_size
         IN  \E p \in {MonWed, TueThu} : \E r \in Range(rooms) :
                /\ load[p][r] + size <= room_capacities[r]
                /\ CanPlaceAll(todo \ {t}, [load EXCEPT ![p][r] = @ + size])

\* the largest number of teams any such assignment places
MaxPlaceable ==
    LET empty == [p \in {MonWed, TueThu} |-> [r \in Range(rooms) |-> 0]]
        sizes == {Cardinality(S) : S \in {T \in SUBSET TeamNames : CanPlaceAll(T, empty)}}
    IN  CHOOSE k \in sizes : \A j \in sizes : j <= k

\* C12: allocate_rooms places as many teams as any assignment can place that
\* gives each placed team one room on both days of one day pair and keeps
\* the summed team sizes of every room-day within the room's capacity.
C12_MaximumPlaced ==
    rpc = "done" => Cardinality(Placed) = MaxPlaceable

\* the rooms that can still take a team of team_size on every day of days,
\* by the capacity that the teams already assigned leave
RoomsWithSpace(team_size, days) ==
    {r \in Range(rooms) :
        /\ room_capacities[r] >= team_size
        /\ \A d \in Range(days) :
              room_capacities[r] - Occupancy(r, d) >= team_size}

\* C13: the overflow pass adds a team to unplaced only if, at that attempt,
\* no room of sufficient capacity has as much remaining capacity (capacity
\* minus the summed sizes of the teams already assigned to it) as the team's
\* size on both days of the opposite day pair.
C13_OverflowUsesRemainingCapacity ==
    [][(rpc = "overflow" /\ unplaced_teams' # unplaced_teams) =>
           LET t == all_unplaced[overflow_idx]
           IN  RoomsWithSpace(preferences[t].team_size, AlternativeDays(t)) = {}]_vars

\* C14: in the main pass a team is attempted only when no team of its day
\* pair group that is still to come is larger, whatever the submission
\* times (earlier, later, or none recorded).
C14_LargerTeamFirst ==
    [][\A t \in visited_teams' \ visited_teams :
          \A u \in TeamNames \ visited_teams' :
              preferences[u].preferred_days = preferences[t].preferred_days
                  => preferences[u].team_size <= preferences[t].team_size]_vars

\* the main pass attempts team t next
AttemptNext(t) ==
    /\ MonWedStep \/ TueThuStep
    /\ visited_teams' = visited_teams \cup {t}

\* C15: of two teams of one size in one day pair group, either can be the
\* one attempted first: whenever the main pass can attempt one of them next,
\* it can attempt the other next as well.
C15_EqualSizeEitherOrder ==
    \A t \in TeamNames \ visited_teams : \A u \in TeamNames \ visited_teams :
        (/\ preferences[u].preferred_days = preferences[t].preferred_days
         /\ preferences[u].team_size = preferences[t].team_size
         /\ ENABLED AttemptNext(t))
            => ENABLED AttemptNext(u)

(***************************************************************************)
(* Properties of add_adhoc_allocation                                      *)
(***************************************************************************)
RecordsOn(existing, day) ==
    {i \in DOMAIN existing : existing[i].day_of_week = day}

Holds(existing, person_name, day) ==
    \E i \in DOMAIN existing :
        existing[i].person_name = person_name /\ existing[i].day_of_week = day

\* C16: a call add_adhoc_allocation(person, day, existing) returns none
\* exactly when day is not a weekday, or existing holds 11 or more records
\* for day, or existing holds a record for person on day; in every other
\* case it returns one new unconfirmed record for that person and day; and
\* in all cases existing is the same list after the call.
C16_AdhocResult ==
    [][(apc = "form" /\ apc' = "called") =>
          LET person_name == adhoc_request'[1]
              day         == adhoc_request'[2]
              refused     ==
                  \/ day \notin Range(weekdays)
                  \/ Cardinality(RecordsOn(existing_allocations, day)) >= 11
                  \/ Holds(existing_allocations, person_name, day)
          IN  /\ (new_allocation' = << >>) <=> refused
              /\ ~refused =>
                    new_allocation' =
                        <<[person_name |-> person_name, day_of_week |-> day,
                           confirmed |-> FALSE]>>
              /\ existing_allocations' = existing_allocations]_vars

\* a call has been refused for the one reason that the day is full, after
\* an earlier call's record was stored
C16_Witness ==
    /\ apc = "called"
    /\ new_allocation = << >>
    /\ adhoc_request[2] \in Range(weekdays)
    /\ Cardinality(RecordsOn(existing_allocations, adhoc_request[2])) = 11
    /\ ~Holds(existing_allocations, adhoc_request[1], adhoc_request[2])
    /\ \E i \in DOMAIN existing_allocations :
          existing_allocations[i].person_name = MaxPeople + 1

(***************************************************************************)
(* Properties of validate_allocation_results                               *)
(***************************************************************************)
\* the last call of the validator has returned its report
Reported == validation_calls > 0 /\ validation_raised = "none"

Errors(kind, key) ==
    {n \in DOMAIN validation_results.errors :
        /\ validation_results.errors[n].kind = kind
        /\ validation_results.errors[n].key = key}

\* the team names the records of weekly_allocations give a room on a day
TeamsAt(room, day) ==
    {weekly_allocations[i].team_name :
        i \in {j \in DOMAIN weekly_allocations :
                  /\ weekly_allocations[j].room_name = room
                  /\ weekly_allocations[j].day_of_week = day}}

\* the people the records of oasis_allocations give a day
PeopleOn(day) ==
    {oasis_allocations[i].person_name :
        i \in {j \in DOMAIN oasis_allocations :
                  oasis_allocations[j].day_of_week = day}}

RoomsSeen == {weekly_allocations[i].room_name : i \in DOMAIN weekly_allocations}

DaysSeen ==
    {weekly_allocations[i].day_of_week : i \in DOMAIN weekly_allocations}
        \cup {oasis_allocations[i].day_of_week : i \in DOMAIN oasis_allocations}

\* C17: the report holds a room-conflict error for a room and day exactly
\* when the records for that room and day name more than one distinct team;
\* records that repeat one team name are no conflict.
C17_ConflictIffDistinctTeams ==
    Reported =>
        \A r \in RoomsSeen : \A d \in DaysSeen :
            (Errors("Room conflict", <<r, d>>) # {})
                <=> Cardinality(TeamsAt(r, d)) > 1

\* C18: the report holds a capacity-exceeded error for a day exactly when
\* more than 11 distinct people are allocated to that day.
C18_ExceededIffDistinctPeople ==
    Reported =>
        \A d \in DaysSeen :
            (Errors("Oasis capacity exceeded", <<d>>) # {})
                <=> Cardinality(PeopleOn(d)) > 11

RecordsFor(room, day) ==
    {j \in DOMAIN weekly_allocations :
        /\ weekly_allocations[j].room_name = room
        /\ weekly_allocations[j].day_of_week = day}

\* the two lists are in order but for one room-day, which two records give
\* to two different teams
OnlyOneConflict ==
    /\ \E r \in RoomsSeen : \E d \in DaysSeen :
          /\ Cardinality(RecordsFor(r, d)) = 2
          /\ Cardinality(TeamsAt(r, d)) = 2
          /\ \A r2 \in RoomsSeen : \A d2 \in DaysSeen :
                <<r2, d2>> # <<r, d>> => Cardinality(RecordsFor(r2, d2)) <= 1
    /\ \A d \in DaysSeen :
          /\ Cardinality({j \in DOMAIN oasis_allocations :
                             oasis_allocations[j].day_of_week = d}) <= 11
          /\ \A i \in DOMAIN oasis_allocations : \A j \in DOMAIN oasis_allocations :
                (/\ i # j
                 /\ oasis_allocations[i].day_of_week = d
                 /\ oasis_allocations[j].day_of_week = d)
                    => oasis_allocations[i].person_name # oasis_allocations[j].person_name

\* C19: a report has valid = false exactly when its errors are not empty;
\* for every room and day that the records give to more than one team,
\* exactly one error entry names that room and day; and lists whose only
\* fault is one room-day held by two different teams give valid = false
\* with exactly one error.
C19_OneErrorPerConflict ==
    Reported =>
        /\ (validation_results.valid = FALSE) <=> (validation_results.errors # << >>)
        /\ \A r \in RoomsSeen : \A d \in DaysSeen :
              Cardinality(TeamsAt(r, d)) > 1
                  => Cardinality(Errors("Room conflict", <<r, d>>)) = 1
        /\ OnlyOneConflict =>
              /\ validation_results.valid = FALSE
              /\ Len(validation_results.errors) = 1

\* the validator has reported on lists whose only fault is one room-day
\* held by two different teams, other records and Oasis records among them
C19_Witness ==
    /\ Reported
    /\ OnlyOneConflict
    /\ Len(weekly_allocations) = 3
    /\ validation_results.errors[1].key = <<"Room B", "Tuesday">>

C21_NeverRaises == validation_raised = "none"

(***************************************************************************)
(* Properties of DataStorage                                               *)
(***************************************************************************)
NormalizedNames(list) == {Normalized(list[i]) : i \in DOMAIN list}

\* C22: whatever the interleaving of the threads' add_weekly_preference and
\* add_oasis_preference calls, a stored collection never holds two records
\* of one normalized name, and a call whose normalized name is stored when
\* it makes its check returns False and leaves the collections as they are.
C22_OneRecordPerName ==
    [][/\ \A c \in Collections :
             Cardinality(NormalizedNames(stored_preferences'[c]))
                 = Len(stored_preferences'[c])
       /\ \A t \in Threads :
             (/\ thread_pc[t] = "add_check"
              /\ thread_pc'[t] = "add_exit"
              /\ Normalized(thread_call[t][2])
                     \in NormalizedNames(stored_preferences[thread_call[t][1]]))
                 => /\ thread_result'[t] = "False"
                    /\ stored_preferences' = stored_preferences]_vars

\* two threads have added two spellings of one name to one collection: one
\* call returned True and the other False
C22_Witness ==
    \E t \in Threads : \E u \in Threads :
        /\ thread_result[t] = "True"
        /\ thread_result[u] = "False"
        /\ thread_call[t][1] = thread_call[u][1]
        /\ thread_call[t][2] # thread_call[u][2]
        /\ Normalized(thread_call[t][2]) = Normalized(thread_call[u][2])
        /\ Len(stored_preferences[thread_call[t][1]]) = 1

\* C27: archive_and_reset returns with the storage lock released: no thread
\* ever waits for the lock while holding it itself, which no later step can
\* end.
C27_LockReleased ==
    \A t \in Threads :
        ~(/\ thread_pc[t] = "update_acquire"
          /\ store_lock = t)

(***************************************************************************)
(* C23: allocate_oasis terminates on every finite preference list, after   *)
(* at most 9 sweeps over the people (1 guarantee pass, at most 4 retry     *)
(* passes, at most 4 bonus passes).  OasisStepsLeft is a natural number    *)
(* that every step of the run lowers, so that no run has more steps than   *)
(* its value at the start; a run that has not returned can take a step;    *)
(* and the sweeps started are never more than 9.                           *)
(***************************************************************************)
PassSteps == Cardinality(PersonNames) + 2

BonusStepsLeft(passes_done) == 2 + (BonusPasses - passes_done) * PassSteps

RetryStepsLeft(passes_done) ==
    BonusStepsLeft(0) + 1 + (max_additional_passes - passes_done) * PassSteps

OasisStepsLeft ==
    CASE opc = "start"      -> RetryStepsLeft(0) + PassSteps
      [] opc = "guarantee"  -> RetryStepsLeft(0) + Cardinality(unvisited) + 1
      [] opc = "retry_loop" -> RetryStepsLeft(pass_num)
      [] opc = "retry_pass" -> RetryStepsLeft(pass_num + 1) + Len(retry_todo) + 1
      [] opc = "bonus_loop" -> BonusStepsLeft(pass_num)
      [] opc = "bonus_pass" -> BonusStepsLeft(pass_num + 1) + Cardinality(unvisited) + 1
      [] opc = "return"     -> 1
      [] OTHER              -> 0

MaxSweeps == 1 + max_additional_passes + max_additional_passes

C23_TerminatesWithinNineSweeps ==
    /\ [](sweeps <= MaxSweeps)
    /\ [](OasisStepsLeft \in Nat)
    /\ [](opc \notin {"done", "idle"} => ENABLED <<NextOasis>>_oasis_vars)
    /\ [][OasisStepsLeft' < OasisStepsLeft]_oasis_vars

\* a run that has returned after 9 sweeps
C23_Witness ==
    /\ opc = "done"
    /\ sweeps = MaxSweeps

(***************************************************************************)
(* C25: the retry passes stop early: at most 4 retry passes run, and no    *)
(* retry pass is started after a retry pass that placed nobody.            *)
(***************************************************************************)
RetryPassStarts ==
    /\ opc = "retry_loop"
    /\ opc' = "retry_pass"

C25_RetryStopsEarly ==
    [][RetryPassStarts =>
          /\ pass_num < max_additional_passes
          /\ (pass_num > 0 => retry_placed > 0)]_oasis_vars

(***************************************************************************)
(* C26: allocate_oasis only grants preferred days: every record (person,   *)
(* day) it makes has the day among the person's preferred days, so that a  *)
(* day nobody requested holds nobody.                                      *)
(***************************************************************************)
C26_OnlyPreferredDays ==
    /\ \A d \in Range(weekdays) : \A p \in PersonNames :
          CopiesIn(p, daily_allocations[d]) > 0 =>
              d \in Range(parsed_preferences[p])
    /\ \A p \in PersonNames :
          Range(person_allocations[p]) \subseteq Range(parsed_preferences[p])
    /\ \A d \in Range(weekdays) : Requested(d) = 0 => Allocated(d) = 0

\* a run has returned for 15 people who all list Monday alone: Monday is full
\* and the other days hold nobody
C26_Witness ==
    /\ opc = "done"
    /\ Cardinality(PersonNames) = daily_capacity + 4
    /\ \A p \in PersonNames : parsed_preferences[p] = MondayOnly
    /\ Allocated("Monday") = daily_capacity
    /\ \A d \in Range(weekdays) \ {"Monday"} : Allocated(d) = 0

(***************************************************************************)
(* C28: a person the guarantee pass leaves without a day is never given a  *)
(* day by a later retry or bonus pass.  From the moment the person was     *)
(* tried, the person holds no day and each of the person's preferred days  *)
(* holds 11 people; the day counts only grow; and once the guarantee pass  *)
(* is over nobody leaves the list of the people left without a day.        *)
(***************************************************************************)
LeftOut == Range(unallocated_people)

C28_LeftOutStayOut ==
    /\ [](\A p \in LeftOut :
            /\ HoldsNoDay(p)
            /\ \A d \in Range(parsed_preferences[p]) :
                  Allocated(d) = daily_capacity)
    /\ [][/\ \A d \in Range(weekdays) : Allocated(d)' >= Allocated(d)
          /\ opc \notin {"start", "guarantee"} =>
                /\ unallocated_people' = unallocated_people
                /\ retry_placed' = 0]_oasis_vars

\* a run has returned in which a person was left without a day while the
\* retry passes ran for that person and a bonus pass granted another person a
\* second day
C28_Witness ==
    /\ opc = "done"
    /\ LeftOut # {}
    /\ sweeps > 1 + max_additional_passes
    /\ \E q \in PersonNames : Len(person_allocations[q]) = 2

(***************************************************************************)
(* C29: from a list with at most 11 records per weekday and no repeated    *)
(* (person, day), every step of the ad-hoc form (call add_adhoc_allocation *)
(* on the current list, append the result when it is not none) leaves a    *)
(* list with at most 11 records per weekday and no repeated (person, day), *)
(* which the Oasis checks of validate_allocation_results pass.             *)
(***************************************************************************)
WithinCapacityNoRepeats(list) ==
    /\ \A d \in Range(weekdays) : Cardinality(RecordsOn(list, d)) <= 11
    /\ \A i, j \in DOMAIN list :
          (/\ list[i].person_name = list[j].person_name
           /\ list[i].day_of_week = list[j].day_of_week) => i = j

C29_AdhocKeepsListValid ==
    [][WithinCapacityNoRepeats(existing_allocations) =>
          /\ WithinCapacityNoRepeats(existing_allocations')
          /\ OasisErrors(existing_allocations') = << >>
          /\ validate_allocation_results(<< >>, existing_allocations').valid]_adhoc_vars

\* two records have been appended, the second of which filled Monday, to a
\* list that was within capacity and free of repeats
C29_Witness ==
    /\ apc = "form"
    /\ adhoc_calls = MaxAdhoc
    /\ new_allocation # << >>
    /\ new_allocation[1].day_of_week = "Monday"
    /\ Cardinality(RecordsOn(existing_allocations, "Monday")) = 11
    /\ Len(existing_allocations) = 12
    /\ WithinCapacityNoRepeats(existing_allocations)

(***************************************************************************)
(* Properties of the admin login                                           *)
(***************************************************************************)
Verifies == login_calls' = login_calls + 1

Attempts(state) ==
    IF "admin_login_attempts" \in DOMAIN state
    THEN state["admin_login_attempts"] ELSE 0

\* what C30 says of a call whatever the streak of failed calls is counted by:
\* a call made less than 900 seconds after the fifth failure of the streak
\* returns False; a call made during the lockout leaves the counter and the
\* lockout end as they are; a call that returns True leaves the counter at 0
\* and no lockout
LockoutHolds(streak, fifth_at) ==
    /\ (streak >= 5 /\ clock < fifth_at[1] + 900) => ~login_result'
    /\ _is_locked_out => (~login_result' /\ session_state' = session_state)
    /\ login_result' =>
          /\ Attempts(session_state') = 0
          /\ "admin_lockout_until" \notin DOMAIN session_state'

\* C30 as stated: after 5 failed verify_admin_password calls with no
\* successful call in between, every call, the correct password included,
\* returns False until 900 seconds have passed since the fifth failure; calls
\* made during the lockout change neither the counter nor the lockout end;
\* a successful call resets the counter to 0 and clears the lockout.
C30_LockoutAfterFiveFailedCalls ==
    [][Verifies => LockoutHolds(failed_calls, fifth_failure_at)]_security_vars

\* C30 with the failed calls that count being those made with a password
\* (a call with an empty password returns False and is not counted): after 5
\* of them with no successful call in between, every call returns False until
\* 900 seconds have passed since the fifth; the rest as stated.
C30_LockoutAfterFiveFailedGuesses ==
    [][Verifies => LockoutHolds(failed_guesses, fifth_guess_at)]_security_vars

\* the correct password has been refused after five failed guesses, and
\* neither the counter nor the lockout end moved
C30_Witness ==
    /\ login_password = "trainee"
    /\ ~login_result
    /\ failed_guesses = max_login_attempts + 1
    /\ Attempts(session_state) = max_login_attempts
    /\ "admin_lockout_until" \in DOMAIN session_state
    /\ clock > 0
    /\ clock < session_state["admin_lockout_until"]

(***************************************************************************)
(* C24: the read -> compute -> write cycles of the admin sessions on the   *)
(* shared store are serialized: no cycle writes back a list read before    *)
(* another cycle's write, so that no ad-hoc addition is lost and the       *)
(* stored Oasis allocations stay within 11 records a day and free of       *)
(* repeated (person, day).                                                 *)
(***************************************************************************)
WritesStore(s) ==
    /\ session_pc[s] = "editor"
    /\ session_pc'[s] = "page"
    /\ stored_oasis' # stored_oasis

C24_CyclesSerialized ==
    /\ [][\A s \in Sessions :
             WritesStore(s) => session_allocations[s] = stored_oasis]_editor_vars
    /\ [](\A r \in added_records : Holds(stored_oasis, r[1], r[2]))
    /\ [](WithinCapacityNoRepeats(stored_oasis))

=============================================================================
